---- MODULE Spec2Model ----
(***************************************************************************)
(* Metrics aggregation, historical blending and caching of the dashboard   *)
(* backend (dashboardbackend/src/services).                                *)
(*                                                                         *)
(* Dates are records [day, sec, us, aware, off]: day is the number of days *)
(* since 2024-10-01, sec the wall-clock second of the day, us the          *)
(* microsecond, aware whether the datetime carries a tzinfo and off its    *)
(* UTC offset in hours.                                                    *)
(***************************************************************************)
EXTENDS Integers, Sequences, FiniteSets, TLC

\* ------------------------------------------------------------------ bounds
MaxReqs == 2        \* concurrent request slots
MaxTime == 300      \* last clock value explored (seconds)
MaxCount == 2       \* largest count a source may answer
MaxFaults == 1      \* failures of a source or of redis over a sequence of requests
MaxCalls == 2       \* requests made one after the other
MaxEvents == 21     \* largest number of message events of one user
MaxDay == 119       \* last day asked of the historical data (days from 2024-10-01)
MaxValue == 12      \* largest value and previous value of a metric object

\* ------------------------------------------------------- program constants
CacheTtl == 300     \* AnalyticsService.cache_ttl = timedelta(minutes=5)
max_retries == 3    \* OpenSearchService.max_retries
base_delay == 1     \* OpenSearchService.base_delay
Quantum == CacheTtl \div 2     \* granularity of the modelled clock: half a TTL
SecondsPerDay == 86400

VARIABLES
    cache,          \* redis: key -> NoEntry or [val, exp, ret]
    now,            \* wall clock in seconds
    disable_cache,  \* AnalyticsService.disable_cache (DISABLE_CACHE)
    faults,         \* failures the environment may still produce
    calls,          \* requests that may still arrive
    pc,             \* per request: position in get_dashboard_metrics
    args,           \* per request: [start, end, include_v1]
    data,           \* per request: source -> metric data fetched so far
    result,         \* per request: the returned response
    hist,           \* per request: what the call did (ghost)
    slots,          \* number of requests that may run concurrently
    retry,          \* state of the retry wrapper (OpenSearchService)
    calc            \* the call in progress outside get_dashboard_metrics: its inputs,
                    \* its position and its result

vars == <<cache, now, disable_cache, faults, calls, pc, args, data, result, hist, slots, retry,
          calc>>

Reqs == 1..MaxReqs

\* ------------------------------------------------------------------- dates
DT(d, s, u, a, o) == [day |-> d, sec |-> s, us |-> u, aware |-> a, off |-> o]

\* HistoricalData._ensure_timezone: a naive datetime is taken as UTC
Wall(dt) == dt.day * SecondsPerDay + dt.sec
Utc(dt) == IF dt.aware THEN Wall(dt) - dt.off * 3600 ELSE Wall(dt)

\* the instant a datetime denotes (naive ones read as UTC)
Instant(dt) == <<Utc(dt), dt.us>>

\* datetime - timedelta(days=n)
MinusDays(dt, n) == [dt EXCEPT !.day = dt.day - n]

\* (a - b): Python raises TypeError when exactly one operand is naive
CanSubtract(a, b) == a.aware = b.aware


\* AnalyticsService._format_date_iso: strftime("%Y-%m-%dT%H:%M:%SZ") prints
\* the wall-clock date and time to the second with a literal "Z"
_format_date_iso(dt) == <<dt.day, dt.sec>>

\* --------------------------------------------------------- HistoricalData
V1_DATA == <<
    [date |-> 0,   total_users |-> 9770,  active_users |-> 1213,  producers |-> 1220],
    [date |-> 31,  total_users |-> 18634, active_users |-> 4231,  producers |-> 4320],
    [date |-> 61,  total_users |-> 27058, active_users |-> 9863,  producers |-> 9830],
    [date |-> 117, total_users |-> 48850, active_users |-> 16560, producers |-> 16800] >>

V1Fields == {"total_users", "active_users", "producers"}

\* int(a + ((b - a) / days) * k) for the checkpoint values, which are
\* non-decreasing, so truncation is the floor
Interpolate(a, b, days, k) == (a * days + (b - a) * k) \div days

V1Segment(t) ==
    CHOOSE i \in 1..(Len(V1_DATA) - 1) :
        /\ V1_DATA[i].date * SecondsPerDay <= t
        /\ t < V1_DATA[i + 1].date * SecondsPerDay

_get_value_at_date(target_date) ==
    LET t == Utc(target_date)
        last == V1_DATA[Len(V1_DATA)]
    IN  IF t < V1_DATA[1].date * SecondsPerDay
        THEN [f \in V1Fields |-> 0]
        ELSE IF t >= last.date * SecondsPerDay
        THEN [f \in V1Fields |-> last[f]]
        ELSE LET i == V1Segment(t)
                 days_between == V1_DATA[i + 1].date - V1_DATA[i].date
                 days_from_start == (t - V1_DATA[i].date * SecondsPerDay) \div SecondsPerDay
             IN  [f \in V1Fields |->
                    Interpolate(V1_DATA[i][f], V1_DATA[i + 1][f], days_between, days_from_start)]

\* (a - b).days for two datetimes that can be subtracted: the whole days of
\* the difference, rounded down
DaysBetween(a, b) ==
    LET borrow == IF a.us < b.us THEN 1 ELSE 0
    IN  (Utc(a) - Utc(b) - borrow) \div SecondsPerDay

\* x / days_in_range as the fraction <<x, days_in_range>>
NoAverage == <<0, 1>>
DailyAverages(v, days_in_range) ==
    [f \in V1Fields |-> IF days_in_range > 0 THEN <<v[f], days_in_range>> ELSE NoAverage]

PreviousDaySame(dt) == dt
\* start_date - timedelta(days=1): the date whose value a delta subtracts
PreviousDay(dt) == MinusDays(dt, 1)

\* HistoricalData.get_v1_metrics; raises is TRUE when the call raises TypeError
get_v1_metrics(start_date, end_date, include_v1) ==
    IF ~include_v1
    THEN [raises |-> FALSE, v |-> [f \in V1Fields |-> 0],
          daily_averages |-> [f \in V1Fields |-> NoAverage]]
    ELSE IF ~CanSubtract(end_date, start_date)
    THEN [raises |-> TRUE, v |-> [f \in V1Fields |-> 0],
          daily_averages |-> [f \in V1Fields |-> NoAverage]]
    ELSE LET end_data == _get_value_at_date(end_date)
             start_data == _get_value_at_date(PreviousDay(start_date))
             v == [f \in V1Fields |-> end_data[f] - start_data[f]]
             days_in_range == DaysBetween(end_date, start_date) + 1
         IN  [raises |-> FALSE, v |-> v, daily_averages |-> DailyAverages(v, days_in_range)]

\* ------------------------------------------------------------ request inputs
Nov1 == DT(31, 0, 0, TRUE, 0)          \* 2024-11-01T00:00:00+00:00
Nov1Plus2 == DT(31, 0, 0, TRUE, 2)     \* 2024-11-01T00:00:00+02:00
Nov1Naive == DT(31, 0, 0, FALSE, 0)    \* 2024-11-01T00:00:00
Dec1 == DT(61, 0, 0, TRUE, 0)          \* 2024-12-01T00:00:00+00:00
Feb14 == DT(136, 43200, 0, TRUE, 0)    \* 2025-02-14T12:00:00+00:00

Args(s, e, f) == [start |-> s, end |-> e, include_v1 |-> f]

\* the requests explored: a window inside the historical era with and
\* without V1 data, the same wall-clock window in another time zone, and a
\* window whose start is naive and whose end is aware
Requests == { Args(Nov1, Dec1, TRUE), Args(Nov1, Dec1, FALSE),
              Args(Nov1Plus2, Dec1, TRUE), Args(Nov1Naive, Feb14, TRUE) }

NoArgs == Args(Nov1, Nov1, FALSE)

\* ---------------------------------------------------------------- sources
\* the awaits of get_dashboard_metrics, in the order the code issues them
FetchOrder == <<"total_users", "thread_users", "sketch_users", "render_users",
                "medium_users", "power_users", "producers">>
Sources == { FetchOrder[i] : i \in 1..Len(FetchOrder) }

\* what a source answers: a count, a failure (any exception, or a non-200
\* status of the directory), or no attempt at all for want of a token
Ok(c) == [kind |-> "ok", n |-> c]
Fail == [kind |-> "fail", n |-> 0]
NoToken == [kind |-> "no_token", n |-> 0]

\* position of a source in the order of the awaits
Index(src) == CHOOSE i \in 1..Len(FetchOrder) : FetchOrder[i] = src

\* the count each source answers for the sample event log
DatasetCount(src) == Index(src) % (MaxCount + 1)

\* round(x, 2) of the percentage n / p * 100, in hundredths of a percent
RoundPct(n, p) == (2 * n * 10000 + p) \div (2 * p)

\* the dict the success path of each _get_* builds from the count
CountMetric(count) ==
    LET previous_count == (9 * count) \div 10    \* int(count * 0.9)
    IN  [value |-> count,
         previousValue |-> previous_count,
         trend |-> IF count > previous_count THEN "up" ELSE "down",
         changePercentage |-> IF previous_count > 0
                              THEN RoundPct(count - previous_count, previous_count)
                              ELSE 0,
         hasChangePct |-> TRUE]

\* the dict every except branch returns
ZeroMetric == [value |-> 0, previousValue |-> 0, trend |-> "neutral",
               changePercentage |-> 0, hasChangePct |-> TRUE]

\* _get_total_users without a bearer token: no changePercentage key
NoTokenMetric == [ZeroMetric EXCEPT !.hasChangePct = FALSE]

\* _get_total_users, _get_thread_users, ... _get_producers on one outcome
SourceMetric(out) ==
    IF out.kind = "fail" THEN ZeroMetric
    ELSE IF out.kind = "no_token" THEN NoTokenMetric
    ELSE CountMetric(out.n)

Pending == [value |-> -1, previousValue |-> -1, trend |-> "pending",
            changePercentage |-> 0, hasChangePct |-> FALSE]

\* ------------------------------------------------------------- the response
\* id of each metric of the response and the source its data comes from
MetricOrder == << <<"descope_users", "total_users">>,
                  <<"thread_users", "thread_users">>,
                  <<"render_users", "render_users">>,
                  <<"active_chat_users", "power_users">>,
                  <<"medium_chat_users", "medium_users">>,
                  <<"sketch_users", "sketch_users">>,
                  <<"producers", "producers">> >>

\* the V1 field added to a source's value when include_v1 is set
V1Of(src, v1) ==
    IF src = "total_users" THEN v1.total_users
    ELSE IF src = "thread_users" THEN v1.active_users
    ELSE IF src = "producers" THEN v1.producers
    ELSE 0

AddV1(d, src, include_v1, v1) ==
    IF include_v1 THEN [d EXCEPT !.value = d.value + V1Of(src, v1)] ELSE d

TimeRange(a) == [start |-> _format_date_iso(a.start), end |-> _format_date_iso(a.end)]

Assemble(d, a, v1) ==
    [metrics |-> [i \in 1..Len(MetricOrder) |->
                    [id |-> MetricOrder[i][1],
                     data |-> AddV1(d[MetricOrder[i][2]], MetricOrder[i][2], a.include_v1, v1)]],
     timeRange |-> TimeRange(a)]

Fallback(a) == [metrics |-> <<>>, timeRange |-> TimeRange(a)]

NoResult == [metrics |-> <<>>, timeRange |-> [start |-> <<0, 0>>, end |-> <<0, 0>>]]

\* -------------------------------------------------------------- the cache
\* f"dashboard_metrics_{iso(start)}_{iso(end)}_{include_v1}"
cache_key(start_date, end_date, include_v1) ==
    <<"dashboard_metrics", _format_date_iso(start_date), _format_date_iso(end_date), include_v1>>

KeyOf(a) == cache_key(a.start, a.end, a.include_v1)

Keys == { KeyOf(a) : a \in Requests }

\* json.dumps / json.loads of a response: the text that encodes the value
json_dumps(v) == [text |-> "json", of |-> v]
json_loads_metrics_only(s) == [s.of EXCEPT !.timeRange = NoResult.timeRange]
json_loads(s) == s.of

\* an entry holds the stored text and its expiry; ret and for record the
\* response its writer returned and the request it was computed for
NoEntry == [val |-> [text |-> "", of |-> NoResult], exp |-> 0, ret |-> NoResult,
            for |-> NoArgs]

\* redis GET: the value of an entry that has not expired, else nil
LiveForever(k) == cache[k] # NoEntry
Live(k) == cache[k] # NoEntry /\ now < cache[k].exp

Expired(k) == cache[k] # NoEntry /\ now >= cache[k].exp

\* redis SET key value EX ttl
RedisSetMinutes(k, v, ttl, r, a) ==
    [cache EXCEPT ![k] = [val |-> v, exp |-> now + ttl \div 60, ret |-> r, for |-> a]]
RedisSet(k, v, ttl, r, a) ==
    [cache EXCEPT ![k] = [val |-> v, exp |-> now + ttl, ret |-> r, for |-> a]]

\* ------------------------------------------- AnalyticsService.get_dashboard_metrics
NoOutcome == [kind |-> "none", n |-> 0]

FreshHist == [path |-> "none", computed |-> 0, queries |-> 0,
              outs |-> [s \in Sources |-> NoOutcome],
              getRaised |-> FALSE, setRaised |-> FALSE, stored |-> FALSE,
              sawLive |-> FALSE, expired |-> FALSE, seen |-> NoResult,
              from |-> NoArgs]

\* a request arrives: the key is built, and with the cache disabled the
\* computation starts at once
Start(r) ==
    /\ r <= slots
    /\ calls > 0
    /\ \A q \in 1..(r - 1) : pc[q] # "idle"     \* slots are taken in order
    /\ \/ pc[r] = "idle"
       \/ pc[r] = "done" /\ \A q \in 1..slots : pc[q] # "idle"   \* and reused when all are taken
    /\ calls' = calls - 1
    /\ \E a \in Requests : args' = [args EXCEPT ![r] = a]
    /\ pc' = [pc EXCEPT ![r] = IF disable_cache THEN "fetch" ELSE "get"]
    /\ data' = [data EXCEPT ![r] = [s \in Sources |-> Pending]]
    /\ result' = [result EXCEPT ![r] = NoResult]
    /\ hist' = [hist EXCEPT ![r] = [FreshHist EXCEPT !.computed = IF disable_cache THEN 1 ELSE 0]]
    /\ UNCHANGED <<cache, now, disable_cache, faults, slots, retry, calc>>

\* what redis.get(cache_key) leads to: the cached response on a hit, the
\* computation when the key is absent, expired, or the read raises
GetHit(r) ==
    /\ pc[r] = "get"
    /\ Live(KeyOf(args[r]))
    /\ cache[KeyOf(args[r])].val.text # ""
    /\ result' = [result EXCEPT ![r] = json_loads(cache[KeyOf(args[r])].val)]
    /\ pc' = [pc EXCEPT ![r] = "done"]
    /\ hist' = [hist EXCEPT ![r].path = "hit",
                            ![r].sawLive = TRUE,
                            ![r].expired = Expired(KeyOf(args[r])),
                            ![r].seen = cache[KeyOf(args[r])].ret,
                            ![r].from = cache[KeyOf(args[r])].for]
    /\ UNCHANGED <<cache, now, disable_cache, faults, calls, data, args, slots, retry, calc>>

GetMiss(r) ==
    /\ pc[r] = "get"
    /\ ~Live(KeyOf(args[r]))
    /\ pc' = [pc EXCEPT ![r] = "fetch"]
    /\ hist' = [hist EXCEPT ![r].computed = @ + 1,
                            ![r].sawLive = Live(KeyOf(args[r])),
                            ![r].expired = Expired(KeyOf(args[r])),
                            ![r].seen = cache[KeyOf(args[r])].ret]
    /\ UNCHANGED <<cache, now, disable_cache, faults, calls, data, args, result, slots, retry, calc>>

GetRaises(r) ==
    /\ pc[r] = "get"
    /\ faults > 0
    /\ faults' = faults - 1
    /\ pc' = [pc EXCEPT ![r] = "fetch"]
    /\ hist' = [hist EXCEPT ![r].computed = @ + 1, ![r].getRaised = TRUE,
                            ![r].sawLive = Live(KeyOf(args[r])),
                            ![r].expired = Expired(KeyOf(args[r])),
                            ![r].seen = cache[KeyOf(args[r])].ret]
    /\ UNCHANGED <<cache, now, disable_cache, calls, data, args, result, slots, retry, calc>>

\* the answers of the seven sources in one computation: the sources in F
\* fail (the directory in the way tk), the others answer the dataset's count
FaultSets == { F \in SUBSET Sources : Cardinality(F) <= faults }
Answers(F, tk) ==
    [s \in Sources |->
        IF s \in F THEN (IF s = "total_users" THEN tk ELSE Fail)
        ELSE Ok(DatasetCount(s))]

\* the state of the request once its last source has answered: the V1 data
\* is added and the response assembled; a raise ends in the fallback
AfterFetchAbort(r, d) ==
    LET a == args[r]
        v1 == get_v1_metrics(a.start, a.end, a.include_v1)
    IN  IF v1.raises \/ \E s \in Sources : d[s].trend = "neutral"
        THEN [pc |-> "done", result |-> Fallback(a), path |-> "fallback"]
        ELSE IF disable_cache
        THEN [pc |-> "done", result |-> Assemble(d, a, v1.v), path |-> "computed"]
        ELSE [pc |-> "set", result |-> Assemble(d, a, v1.v), path |-> "none"]
AfterFetchStoresFallback(r, d) ==
    LET a == args[r]
        v1 == get_v1_metrics(a.start, a.end, a.include_v1)
    IN  IF v1.raises
        THEN [pc |-> IF disable_cache THEN "done" ELSE "set", result |-> Fallback(a),
              path |-> "fallback"]
        ELSE IF disable_cache
        THEN [pc |-> "done", result |-> Assemble(d, a, v1.v), path |-> "computed"]
        ELSE [pc |-> "set", result |-> Assemble(d, a, v1.v), path |-> "none"]
AfterFetch(r, d) ==
    LET a == args[r]
        v1 == get_v1_metrics(a.start, a.end, a.include_v1)
    IN  IF v1.raises
        THEN [pc |-> "done", result |-> Fallback(a), path |-> "fallback"]
        ELSE IF disable_cache
        THEN [pc |-> "done", result |-> Assemble(d, a, v1.v), path |-> "computed"]
        ELSE [pc |-> "set", result |-> Assemble(d, a, v1.v), path |-> "none"]

\* after a miss the computation runs at once: no lock, no in-flight check
MayComputeSingleFlight(r) ==
    /\ pc[r] = "fetch"
    /\ \A q \in Reqs \ {r} : ~(pc[q] \in {"fetch", "set"} /\ KeyOf(args[q]) = KeyOf(args[r]))
MayCompute(r) == pc[r] = "fetch"

\* the computation: the seven sources are awaited one after the other (they
\* share no state with other requests), then the response is assembled
Fetch(r) ==
    /\ MayCompute(r)
    /\ \E F \in FaultSets, tk \in {Fail, NoToken} :
          LET outs == Answers(F, tk)
              d == [s \in Sources |-> SourceMetric(outs[s])]
              n == AfterFetch(r, d)
          IN  /\ faults' = faults - Cardinality(F)
              /\ data' = [data EXCEPT ![r] = d]
              /\ pc' = [pc EXCEPT ![r] = n.pc]
              /\ result' = [result EXCEPT ![r] = n.result]
              /\ hist' = [hist EXCEPT ![r].queries = @ + Len(FetchOrder),
                                      ![r].outs = outs, ![r].path = n.path]
    /\ UNCHANGED <<cache, now, disable_cache, calls, args, slots, retry, calc>>

\* redis.set(cache_key, json.dumps(response), ex=ttl), then return
SetOk(r) ==
    /\ pc[r] = "set"
    /\ cache' = RedisSet(KeyOf(args[r]), json_dumps(result[r]), CacheTtl, result[r], args[r])
    /\ pc' = [pc EXCEPT ![r] = "done"]
    /\ hist' = [hist EXCEPT ![r].path = "computed", ![r].stored = TRUE]
    /\ UNCHANGED <<now, disable_cache, faults, calls, data, args, result, slots, retry, calc>>

SetRaisesPropagates(r) ==
    /\ pc[r] = "set"
    /\ faults > 0
    /\ faults' = faults - 1
    /\ pc' = [pc EXCEPT ![r] = "done"]
    /\ result' = [result EXCEPT ![r] = Fallback(args[r])]
    /\ hist' = [hist EXCEPT ![r].path = "fallback", ![r].setRaised = TRUE]
    /\ UNCHANGED <<cache, now, disable_cache, calls, data, args, slots, retry, calc>>
SetRaises(r) ==
    /\ pc[r] = "set"
    /\ faults > 0
    /\ faults' = faults - 1
    /\ pc' = [pc EXCEPT ![r] = "done"]
    /\ hist' = [hist EXCEPT ![r].path = "computed", ![r].setRaised = TRUE]
    /\ UNCHANGED <<cache, now, disable_cache, calls, data, args, result, slots, retry, calc>>

\* time passes
Tick ==
    /\ now + Quantum <= MaxTime
    /\ now' = now + Quantum
    /\ UNCHANGED <<cache, disable_cache, faults, calls, pc, args, data, result, hist, slots, retry, calc>>

\* ------------------------------------------------- OpenSearchService retry
\* what one execution of the operation (client.search) ends in.  In
\* opensearchpy NotFoundError (404) and RequestError (400) are subclasses of
\* TransportError, as ConnectionError and ConnectionTimeout are.
OpOk(c) == [kind |-> "ok", n |-> c]
OpErr(k) == [kind |-> k, n |-> 0]
ErrorKinds == {"Transient", "NotFound", "InvalidQuery", "Other"}
OpOutcomes == { OpOk(c) : c \in 0..MaxCount } \cup { OpErr(k) : k \in ErrorKinds }

\* except (ConnectionError, TransportError): the errors the wrapper catches
Caught(o) == o.kind \in {"Transient", "NotFound", "InvalidQuery"}

\* the places that query the Event Store and how each reaches client.search
Sites == {"get_user_events", "metrics_query", "get_user_counts",
          "get_producers_count", "list_event_names", "dashboard_query"}
Route(site) ==
    IF site \in {"get_user_events", "metrics_query"}
    THEN "_execute_with_retry"      \* through OpenSearchService.search
    ELSE "client.search"            \* the client is called directly

IdleRetry == [pc |-> "idle", site |-> "none", via |-> "none", attempt |-> 0,
              trace |-> <<>>, waits |-> <<>>, delay |-> 0,
              raised |-> FALSE, out |-> OpOk(0), value |-> 0]

\* a caller issues a query
RCall(site) ==
    /\ retry.pc \in {"idle", "done"}
    /\ retry' = [IdleRetry EXCEPT !.pc = IF Route(site) = "_execute_with_retry"
                                         THEN "try" ELSE "direct",
                                  !.site = site, !.via = Route(site)]
    /\ UNCHANGED <<cache, now, disable_cache, faults, calls, pc, args, data, result, hist, slots, calc>>

\* if attempt == self.max_retries - 1: raise
LastAttemptOffByOne(attempt) == attempt = max_retries
LastAttempt(attempt) == attempt = max_retries - 1

\* delay = self.base_delay * (2**attempt)
Backoff(attempt) == base_delay * (2 ^ attempt)

\* every caller turns an exception into its empty answer (0, {} or [])
Handled(o) == IF o.kind = "ok" THEN o.n ELSE 0

\* one pass of the loop of _execute_with_retry up to its await: the
\* operation runs; a caught error on the last attempt is raised again, on an
\* earlier attempt the backoff delay is computed
RAttempt ==
    /\ retry.pc = "try"
    /\ \E o \in OpOutcomes :
         LET t == Append(retry.trace, o) IN
         IF o.kind = "ok"
         THEN retry' = [retry EXCEPT !.pc = "done", !.trace = t, !.out = o,
                                     !.value = Handled(o)]
         ELSE IF Caught(o) /\ ~LastAttempt(retry.attempt)
         THEN retry' = [retry EXCEPT !.pc = "sleep", !.trace = t,
                                     !.delay = Backoff(retry.attempt)]
         ELSE retry' = [retry EXCEPT !.pc = "done", !.trace = t, !.out = o,
                                     !.raised = TRUE, !.value = Handled(o)]
    /\ UNCHANGED <<cache, now, disable_cache, faults, calls, pc, args, data, result, hist, slots, calc>>

\* await asyncio.sleep(delay), then the next attempt
RSleep ==
    /\ retry.pc = "sleep"
    /\ retry' = [retry EXCEPT !.pc = "try", !.waits = Append(@, retry.delay),
                              !.attempt = @ + 1]
    /\ UNCHANGED <<cache, now, disable_cache, faults, calls, pc, args, data, result, hist, slots, calc>>

\* a caller that awaits client.search itself
RDirect ==
    /\ retry.pc = "direct"
    /\ \E o \in OpOutcomes :
         retry' = [retry EXCEPT !.pc = "done", !.trace = <<o>>, !.out = o,
                                !.raised = (o.kind # "ok"), !.value = Handled(o)]
    /\ UNCHANGED <<cache, now, disable_cache, faults, calls, pc, args, data, result, hist, slots, calc>>

\* ---------------------------------------------------------- pure functions
NoCalc == [op |-> "none"]

\* the call returns; the next one starts from nothing
Return ==
    /\ calc.op # "none"
    /\ calc' = NoCalc
    /\ UNCHANGED <<cache, now, disable_cache, faults, calls, pc, args, data, result, hist,
                   slots, retry>>

\* ------------------------------------------------------- user segmentation
\* the places that sort users into tiers by their number of message events
SegmentPaths == {"dashboard", "user_statistics", "metrics_service", "activity_metrics",
                 "backup_dashboard", "backup_user_activity"}

BackupPaths == {"backup_dashboard", "backup_user_activity"}

\* thread users: at least one message event in the window
IsActive(path, n) ==
    IF path = "user_statistics" THEN n > 0      \* messageCount > 0
    ELSE n >= 1

\* "params.count >= 5 && params.count <= 20", 5 <= messageCount <= 20,
\* min_count=5 max_count=20; the backup copy: 5 <= u < 20
IsModerate(path, n) ==
    IF path \in BackupPaths THEN 5 <= n /\ n < 20
    ELSE n >= 5 /\ n <= 20

\* "params.count > 20", messageCount > 20, min_count=21; the backup copy:
\* u >= 20; ActivityMetrics.get_power_users: min_count=20
IsPower(path, n) ==
    IF path \in BackupPaths \/ path = "activity_metrics" THEN n >= 20
    ELSE IF path = "metrics_service" THEN n >= 21
    ELSE n > 20

\* a user with n message events is sorted by one of the paths
Segment ==
    /\ calc.op = "none"
    /\ \E path \in SegmentPaths, n \in 0..MaxEvents :
          calc' = [op |-> "segment", path |-> path, n |-> n,
                   active |-> IsActive(path, n),
                   moderate |-> IsModerate(path, n),
                   power |-> IsPower(path, n)]
    /\ UNCHANGED <<cache, now, disable_cache, faults, calls, pc, args, data, result, hist,
                   slots, retry>>

\* ------------------------------------------- merge_metrics (backup service)
\* days are counted from 2024-10-01, the first V1 checkpoint
historical_end == 117       \* datetime(2025, 1, 26): historical data ends
opensearch_start == 111     \* datetime(2025, 1, 20): OpenSearch data starts

Max(a, b) == IF a >= b THEN a ELSE b
Min(a, b) == IF a <= b THEN a ELSE b

\* the days a window may start or end on: 2025-01-10, the days around
\* opensearch_start and historical_end, and 2025-02-10
WindowDays == {101, opensearch_start - 1, opensearch_start, historical_end - 1,
               historical_end, historical_end + 1, 132}

\* datetime.now(): the day the call is made, on or after historical_end
Todays == {historical_end, 133}

\* if start_date <= historical_end: the historical service is asked
UsesHistoricalStrict(start_date) == start_date < historical_end
UsesHistorical(start_date) == start_date <= historical_end

\* if end_date >= opensearch_start: OpenSearch is asked
UsesOpenSearch(end_date) == end_date >= opensearch_start

\* thread users and producers of the overlap period: max of the two sources
MergeOverlap(h, o) == Max(h, o)

\* merge_metrics on a window, given what the historical service (h), OpenSearch
\* (o) and Descope (d) answer when they are asked
merge_metrics(start_date, end_date, today, h, o, d) ==
    LET use_h == UsesHistorical(start_date)
        use_os == UsesOpenSearch(end_date)
        overlap == use_h /\ use_os
        directory == end_date >= today - 1
        h_thread == IF use_h THEN h.active_users ELSE 0
        h_producers == IF use_h THEN h.producers ELSE 0
        h_total == IF use_h THEN h.total_users ELSE 0
    IN  [historical |-> use_h,
         live |-> use_os,
         directory |-> directory,
         overlap_days |-> IF overlap
                          THEN Min(end_date, historical_end) - opensearch_start + 1
                          ELSE 0,
         thread_users_count |-> IF overlap THEN MergeOverlap(h_thread, o.thread_users_count)
                                ELSE IF use_os THEN o.thread_users_count
                                ELSE h_thread,
         producers_count |-> IF overlap THEN MergeOverlap(h_producers, o.producers_count)
                             ELSE IF use_os THEN o.producers_count
                             ELSE h_producers,
         total_users |-> IF directory THEN d ELSE h_total]

\* merge_metrics is called on a window with start <= end
Merge ==
    /\ calc.op = "none"
    /\ \E s \in WindowDays, e \in WindowDays, today \in Todays,
          ha \in 0..MaxCount, hp \in 0..MaxCount, ot \in 0..MaxCount, op \in 0..MaxCount :
          /\ s <= e
          /\ LET h == [total_users |-> ha + hp, active_users |-> ha, producers |-> hp]
                 o == [thread_users_count |-> ot, producers_count |-> op]
                 d == 2 * MaxCount + 1
             IN  calc' = [op |-> "merge", start |-> s, end |-> e, today |-> today,
                          h |-> h, o |-> o, d |-> d,
                          out |-> merge_metrics(s, e, today, h, o, d)]
    /\ UNCHANGED <<cache, now, disable_cache, faults, calls, pc, args, data, result, hist,
                   slots, retry>>

\* --------------------------- the V1 addition of get_dashboard_metrics alone
\* midnight UTC of a day
Day(d) == DT(d, 0, 0, TRUE, 0)

\* the sources whose value get_dashboard_metrics adds V1 data to
V1Sources == {"total_users", "thread_users", "producers"}

\* the keys of the dict a _get_* method returns
DataKeys(m) ==
    {"value", "previousValue", "trend"}
        \cup (IF m.hasChangePct THEN {"changePercentage"} ELSE {})

\* get_dashboard_metrics on one source: the count the source answered and
\* the V1 data of the window, combined as the code combines them
AddHistorical ==
    /\ calc.op = "none"
    /\ \E s \in WindowDays, e \in WindowDays, src \in V1Sources,
          c \in 0..MaxCount, f \in BOOLEAN :
          /\ s <= e
          /\ LET v1 == get_v1_metrics(Day(s), Day(e), f)
                 m == AddV1(CountMetric(c), src, f, v1.v)
             IN  calc' = [op |-> "add_v1", start |-> s, end |-> e, include_v1 |-> f,
                          src |-> src, live |-> c, historical |-> V1Of(src, v1.v),
                          data |-> m, keys |-> DataKeys(m)]
    /\ UNCHANGED <<cache, now, disable_cache, faults, calls, pc, args, data, result, hist,
                   slots, retry>>

\* ------------------------------------- valueAt of the two historical services
\* HistoricalDataService.V1_DATA (analytics/historical.py): cumulative totals
\* at 2024-10-01, 2024-10-31, 2024-11-30, 2024-12-31 and 2025-01-26
HistoricalDataService_V1_DATA == <<
    [date |-> 0,   total_users |-> 0,     active_users |-> 0,     producers |-> 0],
    [date |-> 30,  total_users |-> 9770,  active_users |-> 1213,  producers |-> 1220],
    [date |-> 60,  total_users |-> 18634, active_users |-> 4231,  producers |-> 4320],
    [date |-> 91,  total_users |-> 27058, active_users |-> 9863,  producers |-> 9830],
    [date |-> 117, total_users |-> 48850, active_users |-> 16560, producers |-> 16800] >>

\* HistoricalDataService._ensure_timezone
_ensure_timezone(dt) == [dt EXCEPT !.aware = TRUE, !.off = IF dt.aware THEN dt.off ELSE 0]

\* HistoricalDataService._get_metrics_for_range on one date: the last
\* checkpoint on or before the date, the first checkpoint when there is none
CheckpointAt(dt) ==
    LET T == HistoricalDataService_V1_DATA
        before == { i \in 1..Len(T) : T[i].date * SecondsPerDay <= Utc(dt) }
        i == IF before = {} THEN 1 ELSE CHOOSE j \in before : \A k \in before : k <= j
    IN  [f \in V1Fields |-> T[i][f]]

\* HistoricalDataService.get_v1_metrics; raises is TRUE when the call raises
\* TypeError (a naive start_date compared with the aware max_date)
min_date == DT(0, 0, 0, TRUE, 0)
max_date == DT(117, 0, 0, TRUE, 0)
After(a, b) == Utc(a) > Utc(b) \/ (Utc(a) = Utc(b) /\ a.us > b.us)
_get_empty_metrics ==
    [raises |-> FALSE, v |-> [f \in V1Fields |-> 0],
     daily_averages |-> [f \in V1Fields |-> NoAverage]]
service_get_v1_metrics(start_date, end_date, include_v1) ==
    IF ~include_v1
    THEN _get_empty_metrics
    ELSE IF ~start_date.aware
    THEN [_get_empty_metrics EXCEPT !.raises = TRUE]
    ELSE IF After(start_date, max_date)
    THEN _get_empty_metrics
    ELSE LET e0 == _ensure_timezone(end_date)
             s1 == IF After(min_date, start_date) THEN min_date ELSE start_date
             e1 == IF After(e0, max_date) THEN max_date ELSE e0
             start_metrics == CheckpointAt(PreviousDay(s1))
             end_metrics == CheckpointAt(e1)
             v == [f \in V1Fields |-> end_metrics[f] - start_metrics[f]]
             days == DaysBetween(e1, s1) + 1
             days_in_range == IF days < 1 THEN 1 ELSE days
         IN  [raises |-> FALSE, v |-> v, daily_averages |-> DailyAverages(v, days_in_range)]

\* the implementations of valueAt and the checkpoints each one reads
ValueAtImpls == {"HistoricalData", "HistoricalDataService"}
Checkpoints(impl) ==
    IF impl = "HistoricalData" THEN V1_DATA ELSE HistoricalDataService_V1_DATA

\* the days valueAt is asked for: from before the first checkpoint to after
\* the last
ValueDays == (0 - 2)..MaxDay

ValueAtDate ==
    /\ calc.op = "none"
    /\ \E impl \in ValueAtImpls, d \in ValueDays :
          calc' = [op |-> "value_at", impl |-> impl, day |-> d,
                   out |-> IF impl = "HistoricalData"
                           THEN _get_value_at_date(Day(d))
                           ELSE CheckpointAt(Day(d))]
    /\ UNCHANGED <<cache, now, disable_cache, faults, calls, pc, args, data, result, hist,
                   slots, retry>>

\* ------------------------------------- deltaOver of the two historical services
\* the windows asked for: midnights around every checkpoint and past the last
\* one, noon of the last checkpoint's day, and a naive midnight after it
DeltaDays == {0, 1, 16, 30, 31, 60, 61, 116, 117, 118, MaxDay}
DeltaDates == { Day(d) : d \in DeltaDays }
                 \cup { DT(117, 43200, 0, TRUE, 0), DT(118, 0, 0, FALSE, 0) }

valueAt(impl, dt) ==
    IF impl = "HistoricalData" THEN _get_value_at_date(dt) ELSE CheckpointAt(dt)

deltaOver(impl, start_date, end_date) ==
    IF impl = "HistoricalData"
    THEN get_v1_metrics(start_date, end_date, TRUE)
    ELSE service_get_v1_metrics(start_date, end_date, TRUE)

DeltaOver ==
    /\ calc.op = "none"
    /\ \E impl \in ValueAtImpls, s \in DeltaDates, e \in DeltaDates :
          calc' = [op |-> "delta", impl |-> impl, start |-> s, end |-> e,
                   out |-> deltaOver(impl, s, e)]
    /\ UNCHANGED <<cache, now, disable_cache, faults, calls, pc, args, data, result, hist,
                   slots, retry>>

\* the same window asked again with another end date
DeltaOverAgain ==
    /\ calc.op = "delta"
    /\ \E e \in DeltaDates :
          calc' = [calc EXCEPT !.end = e, !.out = deltaOver(calc.impl, calc.start, e)]
    /\ UNCHANGED <<cache, now, disable_cache, faults, calls, pc, args, data, result, hist,
                   slots, retry>>

\* ------------------------------------------------------------ metric objects
\* round(n / d, 2) in hundredths
Round2(n, d) == (2 * n * 100 + d) \div (2 * d)

\* analytics/metrics/utils.py calculate_delta
calculate_delta(curr_value, prev_value) ==
    LET delta == curr_value - prev_value
    IN  [value |-> curr_value,
         previousValue |-> prev_value,
         trend |-> IF delta > 0 THEN "up" ELSE IF delta < 0 THEN "down" ELSE "neutral",
         changePercentage |-> IF prev_value > 0 THEN Round2(delta * 100, prev_value)
                              ELSE IF delta > 0 THEN 10000 ELSE 0]

\* analytics/metrics/utils.py create_metric_object, the "data" of the metric
\* built from a dict with value and previousValue
create_metric_object(current_value, previous, v1_value) ==
    LET total_value == current_value + v1_value
        previous_value == previous
    IN  [value |-> total_value,
         previousValue |-> previous_value,
         trend |-> IF total_value > previous_value THEN "up"
                   ELSE IF total_value < previous_value THEN "down" ELSE "stable",
         changePercentage |->
             IF total_value > previous_value
             THEN IF previous_value > 0
                  THEN Round2((total_value - previous_value) * 100, previous_value)
                  ELSE 10000
             ELSE IF total_value < previous_value
             THEN IF previous_value > 0
                  THEN Round2((previous_value - total_value) * 100, previous_value)
                  ELSE 10000
             ELSE 0]

\* analytics/metrics/base_metrics.py calculate_delta, as the fraction <<n, d>>
base_calculate_delta(current, previous) ==
    IF previous = 0
    THEN << IF current > 0 THEN 100 ELSE 0, 1 >>
    ELSE << (current - previous) * 100, previous >>

\* analytics/metrics/base_metrics.py create_metric_object
base_create_metric_object(value, previous_value) ==
    LET delta == base_calculate_delta(value, previous_value)
    IN  [value |-> value,
         previousValue |-> previous_value,
         trend |-> IF delta[1] > 0 THEN "up" ELSE IF delta[1] < 0 THEN "down" ELSE "neutral",
         changePercentage |-> Round2(delta[1], delta[2])]

\* the functions that build a metric's value, previousValue, trend and
\* changePercentage
MetricFns == {"utils.calculate_delta", "utils.create_metric_object",
              "base_metrics.create_metric_object", "_get_producers"}

MetricData(m) == [value |-> m.value, previousValue |-> m.previousValue,
                  trend |-> m.trend, changePercentage |-> m.changePercentage]

MetricBy(fn, value, previous) ==
    IF fn = "utils.calculate_delta" THEN calculate_delta(value, previous)
    ELSE IF fn = "utils.create_metric_object" THEN create_metric_object(value, previous, 0)
    ELSE IF fn = "base_metrics.create_metric_object"
    THEN base_create_metric_object(value, previous)
    ELSE MetricData(CountMetric(value))

MakeMetric ==
    /\ calc.op = "none"
    /\ \E fn \in MetricFns, value \in 0..MaxValue, previous \in 0..MaxValue :
          calc' = [op |-> "metric", fn |-> fn, out |-> MetricBy(fn, value, previous)]
    /\ UNCHANGED <<cache, now, disable_cache, faults, calls, pc, args, data, result, hist,
                   slots, retry>>

\* ------------------------------------------- previousValue of a metric
\* the three ways a previousValue is produced: the backup get_dashboard_metrics
\* queries the preceding window, _get_producers derives it from the count,
\* _execute_query passes 0
PreviousPaths == {"backup_dashboard", "_get_producers", "_execute_query"}

\* windows of whole and of half days, and the instants of the logged events
PeriodDates == { DT(d, s, 0, TRUE, 0) : d \in 10..11, s \in {0, 43200} } \cup { Day(12) }
EventTimes == { DT(8, 43200, 0, TRUE, 0), Day(9), DT(9, 43200, 0, TRUE, 0), Day(10),
                DT(10, 43200, 0, TRUE, 0) }

\* the users the event store counts between two instants (range gte .. lte),
\* one user per logged event
CountBetween(log, from, to) == Cardinality({ t \in log : from <= Utc(t) /\ Utc(t) <= Utc(to) })

\* backup get_dashboard_metrics: days_diff = (end_date - start_date).days,
\* prev_end_date = start_date, prev_start_date = prev_end_date - days_diff days
prev_start_date(start_date, end_date) == MinusDays(start_date, DaysBetween(end_date, start_date))

PreviousValue(path, log, start_date, end_date) ==
    IF path = "backup_dashboard"
    THEN CountBetween(log, Utc(prev_start_date(start_date, end_date)), start_date)
    ELSE IF path = "_get_producers"
    THEN CountMetric(CountBetween(log, Utc(start_date), end_date)).previousValue
    ELSE 0

PreviousPeriod ==
    /\ calc.op = "none"
    /\ \E path \in PreviousPaths, log \in SUBSET EventTimes,
          s \in PeriodDates, e \in PeriodDates :
          /\ ~After(s, e)
          /\ calc' = [op |-> "previous", path |-> path, log |-> log, start |-> s, end |-> e,
                      value |-> CountBetween(log, Utc(s), e),
                      previousValue |-> PreviousValue(path, log, s, e)]
    /\ UNCHANGED <<cache, now, disable_cache, faults, calls, pc, args, data, result, hist,
                   slots, retry>>

\* ------------------------------------- BaseMetricsService._validate_dates
_validate_dates(start_date, end_date) ==
    LET s0 == _ensure_timezone(start_date)
        e0 == _ensure_timezone(end_date)
        s1 == IF After(min_date, s0) THEN min_date ELSE s0
    IN  IF After(s1, e0) THEN [start |-> e0, end |-> s1] ELSE [start |-> s1, end |-> e0]

\* dates before, at and after the floor 2024-10-01 (day 0), aware and naive
FloorDays == {0 - 20, 0 - 10, 0, 10, 20}
InputDates == { DT(d, s, 0, a, 0) : d \in FloorDays, s \in {0, 43200}, a \in BOOLEAN }

ValidateDates ==
    /\ calc.op = "none"
    /\ \E s \in InputDates, e \in InputDates :
          calc' = [op |-> "validate", start |-> s, end |-> e, out |-> _validate_dates(s, e)]
    /\ UNCHANGED <<cache, now, disable_cache, faults, calls, pc, args, data, result, hist,
                   slots, retry>>

\* ----------------------------- daily averages of merge_metrics (overlap case)
\* historical_weight, opensearch_weight: days from start to historical_end
\* and from opensearch_start to end
historical_weight(start_date) == historical_end - start_date + 1
opensearch_weight(end_date) == end_date - opensearch_start + 1

\* int((daily * historical_weight + (count / opensearch_weight) * opensearch_weight)
\*     / total_weight) for the non-negative values of the inputs explored
daily_merged(start_date, end_date, h_daily, o_count) ==
    LET total_weight == historical_weight(start_date) + opensearch_weight(end_date)
    IN  (h_daily * historical_weight(start_date) + o_count) \div total_weight

\* what the historical service reports as a daily average and what OpenSearch
\* counts over its part of the window
DailyValues == {0, 3}
LiveCounts == {0, 20, 45}

MergeDaily ==
    /\ calc.op = "none"
    /\ \E s \in WindowDays, e \in WindowDays, hd \in DailyValues, oc \in LiveCounts :
          /\ s <= e
          /\ UsesHistorical(s) /\ UsesOpenSearch(e)
          /\ calc' = [op |-> "merge_daily", start |-> s, end |-> e, h_daily |-> hd,
                      o_count |-> oc, out |-> daily_merged(s, e, hd, oc)]
    /\ UNCHANGED <<cache, now, disable_cache, faults, calls, pc, args, data, result, hist,
                   slots, retry>>

\* ------------------------------------- AnalyticsService.get_user_statistics
Users == {"u1", "u2"}
Counts(a, b) == [u \in Users |-> IF u = "u1" THEN a ELSE b]

\* a count dict as a function on the users: 0 stands for "no bucket, no key"
EmptyCounts == Counts(0, 0)

\* the three queries asyncio.gather runs, and the per-user counts the event
\* store holds for each
Queries == {"message", "sketch", "render"}
MessageLogs == {Counts(15, 25), Counts(5, 21), Counts(20, 0), Counts(0, 4)}
SketchLogs == {Counts(5, 10), Counts(0, 1)}
RenderLogs == {Counts(2, 4), Counts(0, 0)}

GaugeTypes == {"thread_users", "sketch_users", "render_users", "medium_chat_users",
               "active_chat_users"}

\* should_include of get_user_statistics
should_include(gauge_type, user_stat) ==
    \/ gauge_type = "thread_users" /\ user_stat.messageCount > 0
    \/ gauge_type = "sketch_users" /\ user_stat.sketchCount > 0
    \/ gauge_type = "render_users" /\ user_stat.renderCount > 0
    \/ gauge_type = "medium_chat_users" /\ 5 <= user_stat.messageCount
                                         /\ user_stat.messageCount <= 20
    \/ gauge_type = "active_chat_users" /\ user_stat.messageCount > 20

\* the count the rows of a gauge are sorted by
SortKey(gauge_type, user_stat) ==
    IF gauge_type = "sketch_users" THEN user_stat.sketchCount
    ELSE IF gauge_type = "render_users" THEN user_stat.renderCount
    ELSE user_stat.messageCount

UserStat(counts, u) ==
    [trace_id |-> u,
     messageCount |-> counts["message"][u],
     sketchCount |-> counts["sketch"][u],
     renderCount |-> counts["render"][u]]

\* user_ids: the keys of the three dicts
UserIds(counts) == { u \in Users : \E q \in Queries : counts[q][u] > 0 }

\* AnalyticsService._get_user_details: the users the directory resolves among
\* the ones asked; nothing without a token, on a non-200 answer or on an error
_get_user_details(user_ids, resolved) == user_ids \cap resolved

\* the rows: the users with details that pass the gauge's filter
Included(gauge_type, counts, user_details) ==
    { u \in UserIds(counts) :
        u \in user_details /\ should_include(gauge_type, UserStat(counts, u)) }

\* the orders user_stats.sort(key=..., reverse=True) may leave the rows in
\* (user_ids comes from a set, so rows with equal keys may be in either order)
SortedRows(gauge_type, counts, S) ==
    { rows \in [1..Cardinality(S) -> { UserStat(counts, u) : u \in S }] :
        /\ \A i, j \in 1..Cardinality(S) : i # j => rows[i] # rows[j]
        /\ \A i, j \in 1..Cardinality(S) :
              i < j => SortKey(gauge_type, rows[i]) >= SortKey(gauge_type, rows[j]) }

\* asyncio.gather resumes its caller when every awaited query is done
GatherReadyAny(pending) == pending # Queries
GatherReady(pending) == pending = {}

StatsFrame == UNCHANGED <<cache, now, disable_cache, faults, calls, pc, args, data, result,
                          hist, slots, retry>>

\* get_user_statistics is called: the three queries are started together
StatsCall ==
    /\ calc.op = "none"
    /\ \E g \in GaugeTypes, m \in MessageLogs, s \in SketchLogs, r \in RenderLogs,
          failing \in SUBSET Queries, resolved \in SUBSET Users :
          calc' = [op |-> "user_statistics", pc |-> "gather", gauge_type |-> g,
                   log |-> [message |-> m, sketch |-> s, render |-> r],
                   failing |-> failing, resolved |-> resolved,
                   pending |-> Queries,
                   counts |-> [q \in Queries |-> EmptyCounts],
                   user_details |-> {}, rows |-> <<>>]
    /\ StatsFrame

\* _get_user_message_counts, _get_user_sketch_counts, _get_user_render_counts:
\* the buckets of the answer, or {} when the search raises
QueryCompletes(q) ==
    /\ calc.op = "user_statistics" /\ calc.pc = "gather"
    /\ q \in calc.pending
    /\ calc' = [calc EXCEPT !.pending = @ \ {q},
                            !.counts[q] = IF q \in calc.failing THEN EmptyCounts
                                          ELSE calc.log[q]]
    /\ StatsFrame

\* the await of asyncio.gather returns and _get_user_details is awaited
GatherReturns ==
    /\ calc.op = "user_statistics" /\ calc.pc = "gather"
    /\ GatherReady(calc.pending)
    /\ calc' = [calc EXCEPT !.pc = "details"]
    /\ StatsFrame

\* the directory answers; the rows are built, filtered, sorted and returned
DetailsReturn ==
    /\ calc.op = "user_statistics" /\ calc.pc = "details"
    /\ LET user_details == _get_user_details(UserIds(calc.counts), calc.resolved)
       IN  \E rows \in SortedRows(calc.gauge_type, calc.counts,
                                  Included(calc.gauge_type, calc.counts, user_details)) :
              calc' = [calc EXCEPT !.pc = "done", !.user_details = user_details,
                                   !.rows = rows]
    /\ StatsFrame

StatsReturn ==
    /\ calc.op = "user_statistics" /\ calc.pc = "done"
    /\ calc' = NoCalc
    /\ StatsFrame

\* ------------------------------------------ cache keys of cache warming
\* the text of a date inside a key: day, second of the day, fraction of a
\* second (0: none printed) and the suffix
DateText(d, s, us, kind, hours) ==
    [day |-> d, sec |-> s, frac |-> us, suffix |-> [kind |-> kind, hours |-> hours]]

\* datetime.isoformat(): microseconds when not 0, "+hh:00" when aware
isoformat(dt) ==
    DateText(dt.day, dt.sec, dt.us, IF dt.aware THEN "offset" ELSE "none",
             IF dt.aware THEN dt.off ELSE 0)

\* the text _format_date_iso prints: to the second, with a literal "Z"
IsoZText(dt) ==
    LET t == _format_date_iso(dt) IN DateText(t[1], t[2], 0, "Z", 0)

\* a key as its parts: prefix, separator, the two date texts, the flag suffix
KeyText(prefix, sep, start, end, flag) ==
    [prefix |-> prefix, sep |-> sep, start |-> start, end |-> end, flag |-> flag]

\* CacheWarmingService.warm_dashboard_cache:
\* f"dashboard_metrics:{start_date.isoformat()}:{end_date.isoformat()}"
warm_cache_key(start_date, end_date) ==
    KeyText("dashboard_metrics", ":", isoformat(start_date), isoformat(end_date), "")

\* the key get_dashboard_metrics looks up: AnalyticsService (the service the
\* warmer is built on) and the backup copy
LookupImpls == {"analytics_service", "backup"}
lookup_cache_key(impl, start_date, end_date, include_v1) ==
    IF impl = "analytics_service"
    THEN LET k == cache_key(start_date, end_date, include_v1)
         IN  KeyText(k[1], "_", IsoZText(start_date), IsoZText(end_date),
                     IF k[4] THEN "True" ELSE "False")
    ELSE KeyText("dashboard_metrics", ":", isoformat(start_date), isoformat(end_date), "")

\* the ranges warmed: whole days, and "now" with its microseconds
WarmDates == {Nov1, Dec1, Feb14, DT(136, 43200, 5, TRUE, 0)}

\* warm_dashboard_cache stores a range that a request then asks for; the
\* warmer calls get_dashboard_metrics(start, end), so include_v1 is True
WarmKey ==
    /\ calc.op = "none"
    /\ \E impl \in LookupImpls, s \in WarmDates, e \in WarmDates :
          /\ ~After(s, e)
          /\ calc' = [op |-> "warm", impl |-> impl, start |-> s, end |-> e,
                      stored |-> warm_cache_key(s, e),
                      looked_up |-> lookup_cache_key(impl, s, e, TRUE)]
    /\ UNCHANGED <<cache, now, disable_cache, faults, calls, pc, args, data, result, hist,
                   slots, retry>>

\* ------------------------------------------------------------ CachingService
\* a Python value: its type and the text str() or json.dumps() prints for it
Val(t, x) == [t |-> t, x |-> x]
None == Val("null", "None")

\* the values stored: dicts, lists, strings, numbers, a boolean and None
CacheValues == { Val("dict", "{\"a\": 1}"), Val("dict", "{}"), Val("list", "[1]"),
                 Val("str", "hello"), Val("str", "123"), Val("str", ""),
                 Val("int", "5"), Val("int", "0"), Val("bool", "True"), None }

\* CachingService.set: json.dumps for a dict or list, the string itself for a
\* str, str(value) for everything else
set_text(value) == value.x

\* json.loads of a stored text: the value it denotes; "hello", "True" and
\* "None" are not JSON and raise
JsonTexts == {"{\"a\": 1}", "{}", "[1]", "123", "5", "0"}
json_parse(text) ==
    IF text \in {"{\"a\": 1}", "{}"} THEN Val("dict", text)
    ELSE IF text = "[1]" THEN Val("list", text)
    ELSE Val("int", text)

\* CachingService.get on a key that holds text: None for an empty string
\* (falsy) and when json.loads raises
caching_get(text) ==
    IF text = "" THEN None
    ELSE IF text \notin JsonTexts THEN None
    ELSE json_parse(text)

\* CachingService.get_or_set called twice on a key that was absent:
\* the first call computes and stores, the second returns the cached value
\* unless get returned None
get_or_set_twice(value) ==
    LET cached_value == caching_get(set_text(value))
    IN  [second |-> IF cached_value # None THEN cached_value ELSE value,
         computed |-> IF cached_value # None THEN 1 ELSE 2]

RoundTrip ==
    /\ calc.op = "none"
    /\ \E v \in CacheValues :
          calc' = [op |-> "roundtrip", v |-> v, stored |-> set_text(v),
                   got |-> caching_get(set_text(v)),
                   again |-> get_or_set_twice(v)]
    /\ UNCHANGED <<cache, now, disable_cache, faults, calls, pc, args, data, result, hist,
                   slots, retry>>

\* ------------------------------------------------------------ specification
AllFaults == Len(FetchOrder) + 2

\* the environments explored: requests that run concurrently while every
\* dependency answers (with the cache they share enabled), requests made one
\* after the other while dependencies fail now and then, and one request for
\* which every dependency may fail
Concurrent == slots = MaxReqs /\ faults = 0 /\ calls = MaxReqs /\ ~disable_cache
Sequential == slots = 1 /\ faults = MaxFaults /\ calls = MaxCalls
Single == slots = 1 /\ faults = AllFaults /\ calls = 1

InitWith(env) ==
    /\ disable_cache \in BOOLEAN
    /\ env
    /\ cache = [k \in Keys |-> NoEntry]
    /\ now = 0
    /\ pc = [r \in Reqs |-> "idle"]
    /\ args = [r \in Reqs |-> NoArgs]
    /\ data = [r \in Reqs |-> [s \in Sources |-> Pending]]
    /\ result = [r \in Reqs |-> NoResult]
    /\ hist = [r \in Reqs |-> FreshHist]
    /\ retry = IdleRetry
    /\ calc = NoCalc

Init == InitWith(Concurrent \/ Sequential \/ Single)

Next ==
    \/ \E r \in Reqs : Start(r)
    \/ \E r \in Reqs : GetHit(r)
    \/ \E r \in Reqs : GetMiss(r)
    \/ \E r \in Reqs : GetRaises(r)
    \/ \E r \in Reqs : Fetch(r)
    \/ \E r \in Reqs : SetOk(r)
    \/ \E r \in Reqs : SetRaises(r)
    \/ Tick

Spec == Init /\ [][Next]_vars

\* the Event Store client on its own: no request is in flight
InitRetry == InitWith(slots = 1 /\ faults = 0 /\ calls = 0) /\ ~disable_cache

NextRetry ==
    \/ \E site \in Sites : RCall(site)
    \/ RAttempt
    \/ RSleep
    \/ RDirect

SpecRetry == InitRetry /\ [][NextRetry]_vars

\* the pure functions on their own: no request is in flight
InitCalc == InitWith(slots = 1 /\ faults = 0 /\ calls = 0) /\ ~disable_cache

NextCalc ==
    \/ Segment
    \/ Merge
    \/ AddHistorical
    \/ ValueAtDate
    \/ DeltaOver
    \/ MakeMetric
    \/ PreviousPeriod
    \/ ValidateDates
    \/ MergeDaily
    \/ WarmKey
    \/ RoundTrip
    \/ DeltaOverAgain
    \/ Return

SpecCalc == InitCalc /\ [][NextCalc]_vars

\* get_user_statistics alone: the three count queries of one call complete in
\* any order
NextStats ==
    \/ StatsCall
    \/ \E q \in Queries : QueryCompletes(q)
    \/ GatherReturns
    \/ DetailsReturn
    \/ StatsReturn

SpecStats == InitCalc /\ [][NextStats]_vars


\* ------------------------------------------------------------------ helpers
Key(r) == KeyOf(args[r])
Finished(r) == pc[r] = "done"
Failed(r, src) == hist[r].outs[src].kind \in {"fail", "no_token"}
Degraded(r) == \E src \in Sources : Failed(r, src)
Wrapped == retry.via = "_execute_with_retry"

\* a response in which some metric is the zero metric of a failed source
PartialResponse(resp) ==
    \E i \in 1..Len(resp.metrics) : resp.metrics[i].data.trend = "neutral"

\* the two requests denote the same window and flags
SameRequest(a, b) ==
    /\ Instant(a.start) = Instant(b.start)
    /\ Instant(a.end) = Instant(b.end)
    /\ a.start.aware = b.start.aware
    /\ a.end.aware = b.end.aware
    /\ a.include_v1 = b.include_v1

\* the historical value get_dashboard_metrics adds to a source's value
V1Term(a, src) == V1Of(src, get_v1_metrics(a.start, a.end, a.include_v1).v)

\* ------------------------------------------------------------------- claims

C4_CacheFailureDegrades ==
    \A r \in Reqs :
        (Finished(r) /\ (hist[r].getRaised \/ hist[r].setRaised)) =>
            /\ hist[r].computed = 1
            /\ hist[r].queries = 7
            /\ LET v1 == get_v1_metrics(args[r].start, args[r].end, args[r].include_v1)
               IN  result[r] = IF v1.raises THEN Fallback(args[r])
                               ELSE Assemble(data[r], args[r], v1.v)

\* one call survived a failing read and a failing write
C4_Witness ==
    \E r \in Reqs : /\ Finished(r)
                    /\ hist[r].getRaised
                    /\ hist[r].setRaised
                    /\ Len(result[r].metrics) = 7

\* C5 as stated: two requests have the same key exactly when they have the
\* same start instant, end instant and flag, and a cached payload is only
\* returned to a request equal to the one it was computed for
C5_KeySeparatesRequests ==
    /\ \A r, q \in Reqs :
          (pc[r] # "idle" /\ pc[q] # "idle") =>
             (Key(r) = Key(q) <=> SameRequest(args[r], args[q]))
    /\ \A r \in Reqs :
          hist[r].path = "hit" => SameRequest(args[r], hist[r].from)

\* C6: a request that missed can compute while another request for the same
\* key is computing or about to store (it never waits); every computed
\* response is one whole response; every cache entry is the whole serialized
\* response of one computation; and of the requests with the same key that
\* computed and stored, the cache holds the response of one of them
C6_NoSingleFlight ==
    /\ \A r, q \in Reqs :
          (r # q /\ pc[r] = "fetch" /\ pc[q] \in {"fetch", "set"} /\ Key(q) = Key(r)) =>
              ENABLED Fetch(r)
    /\ \A r \in Reqs :
          (Finished(r) /\ hist[r].path = "computed") =>
              /\ hist[r].computed = 1
              /\ Len(result[r].metrics) = 7
    /\ \A k \in Keys :
          cache[k] # NoEntry =>
              /\ cache[k].val = json_dumps(cache[k].ret)
              /\ Len(cache[k].ret.metrics) = 7
    /\ \A r \in Reqs :
          (Finished(r) /\ hist[r].stored) =>
              \E q \in Reqs : /\ Finished(q) /\ hist[q].stored /\ Key(q) = Key(r)
                              /\ cache[Key(r)].ret = result[q]

\* two requests for one key both missed, both computed, with different results
C6_Witness ==
    \E r, q \in Reqs : /\ r # q
                       /\ Finished(r) /\ Finished(q)
                       /\ Key(r) = Key(q)
                       /\ hist[r].stored /\ hist[q].stored
                       /\ ~hist[r].getRaised /\ ~hist[q].getRaised
                       /\ result[r] # result[q]
                       /\ cache[Key(r)].ret = result[r]

\* C7: the wrapper runs the operation at most 3 times, sleeps 1 s after the
\* first caught failure and 2 s after the second, returns the first success
\* unchanged, and raises the third transient failure without a further sleep
C7_RetryBackoff ==
    Wrapped =>
        /\ Len(retry.trace) <= 3
        /\ Len(retry.waits) <= 2
        /\ \A i \in 1..Len(retry.waits) : retry.waits[i] = (IF i = 1 THEN 1 ELSE 2)
        /\ retry.pc = "done" =>
              LET n == Len(retry.trace)
                  last == retry.trace[n]
              IN  /\ Len(retry.waits) = n - 1
                  /\ last.kind = "ok" =>
                        /\ ~retry.raised
                        /\ retry.out = last
                        /\ \A i \in 1..(n - 1) : retry.trace[i].kind # "ok"
                  /\ (n = 3 /\ \A i \in 1..3 : retry.trace[i].kind = "Transient") =>
                        /\ retry.raised
                        /\ retry.waits = <<1, 2>>

\* Transient, Transient, success
C7_Witness ==
    /\ Wrapped
    /\ retry.pc = "done"
    /\ Len(retry.trace) = 3
    /\ retry.trace[1].kind = "Transient"
    /\ retry.trace[2].kind = "Transient"
    /\ retry.trace[3] = OpOk(1)
    /\ retry.out = OpOk(1)
    /\ retry.waits = <<1, 2>>

\* C8 as stated: after a NotFound or InvalidQuery error the operation is not
\* run again and no backoff follows; the caller's zero answer is immediate
C8_NoRetryOfNotFound ==
    \A i \in 1..Len(retry.trace) :
        retry.trace[i].kind \in {"NotFound", "InvalidQuery"} =>
            /\ i = Len(retry.trace)
            /\ Len(retry.waits) < i
            /\ retry.pc = "done"
            /\ retry.value = 0

\* C9 as stated: every query of the Event Store goes through the retry
\* wrapper, so a transient failure is answered by further attempts
C9_AllQueriesWrapped ==
    /\ retry.pc # "idle" => Wrapped
    /\ (retry.pc = "done" /\ retry.trace[Len(retry.trace)].kind = "Transient") =>
          Len(retry.trace) = 3

C11_Thresholds ==
    calc.op = "segment" =>
        /\ calc.active <=> calc.n >= 1
        /\ calc.moderate <=> (5 <= calc.n /\ calc.n <= 20)
        /\ calc.power <=> calc.n > 20

\* the strategy a call of merge_metrics followed, read off the sources it asked
HistoricalOnly == calc.out.historical /\ ~calc.out.live
LiveOnly == calc.out.live /\ ~calc.out.historical
Blended == calc.out.historical /\ calc.out.live

C13_MaxNotSum ==
    /\ (calc.op = "merge" /\ calc.out.historical /\ calc.out.live) =>
          /\ calc.out.thread_users_count =
                Max(calc.h.active_users, calc.o.thread_users_count)
          /\ calc.out.producers_count = Max(calc.h.producers, calc.o.producers_count)
    /\ (calc.op = "add_v1" /\ calc.include_v1 /\ calc.src \in {"thread_users", "producers"}
          /\ calc.start <= historical_end /\ calc.end >= opensearch_start) =>
          calc.data.value = Max(calc.historical, calc.live)

\* C14 as stated: with include_v1 the value of total users, thread users and
\* producers is historical + live, and the metric has a daily_average
C14_SumAndDailyAverage ==
    (calc.op = "add_v1" /\ calc.include_v1) =>
        /\ calc.data.value = calc.historical + calc.live
        /\ "daily_average" \in calc.keys

\* C15 as stated: valueAt is 0 before the first checkpoint, the last
\* checkpoint's value at or after the last checkpoint, and otherwise the
\* truncated linear interpolation between the bracketing checkpoints (so with
\* checkpoints (2024-10-01, 0) and (2024-10-31, 9770) it is 4885 on 2024-10-16)
C15_ValueAt ==
    calc.op = "value_at" =>
        LET T == Checkpoints(calc.impl)
            d == calc.day
        IN  \A f \in V1Fields :
              /\ d < T[1].date => calc.out[f] = 0
              /\ d >= T[Len(T)].date => calc.out[f] = T[Len(T)][f]
              /\ \A i \in 1..(Len(T) - 1) :
                    (T[i].date <= d /\ d < T[i + 1].date) =>
                        calc.out[f] = T[i][f] + ((T[i + 1][f] - T[i][f]) * (d - T[i].date))
                                                    \div (T[i + 1].date - T[i].date)

\* the windows of C16: both dates are midnights between the first checkpoint
\* (minDate) and the last one (cutoverDate), start no later than end
InEra(c) ==
    /\ c.op = "delta"
    /\ ~c.out.raises
    /\ ~After(min_date, c.start) /\ ~After(c.start, c.end) /\ ~After(c.end, max_date)

C16_DeltaIsDifference ==
    InEra(calc) =>
        \A f \in V1Fields :
            calc.out.v[f] = valueAt(calc.impl, calc.end)[f]
                              - valueAt(calc.impl, MinusDays(calc.start, 1))[f]

C16_MonotoneStep ==
    (/\ InEra(calc) /\ InEra(calc')
     /\ calc'.impl = calc.impl /\ calc'.start = calc.start
     /\ ~After(calc.end, calc'.end))
        => \A f \in V1Fields : calc.out.v[f] <= calc'.out.v[f]

\* C16: inside the historical era deltaOver(start, end) is
\* valueAt(end) - valueAt(start - 1 day), and asking the same start with a
\* later end never returns a smaller delta
C16_DeltaOver == []C16_DeltaIsDifference /\ [][C16_MonotoneStep]_vars

\* a window inside the era whose delta is not zero
C16_Witness ==
    /\ InEra(calc)
    /\ calc.start = Day(31) /\ calc.end = Day(60)
    /\ \A f \in V1Fields : calc.out.v[f] > 0

\* C17 as stated: a window that starts after the last checkpoint (the
\* cutover date) and does not end before it starts gets 0 for every metric
\* and for every daily average
C17_ZeroAfterCutover ==
    (/\ calc.op = "delta"
     /\ After(calc.start, max_date)
     /\ ~After(calc.start, calc.end))
        => /\ ~calc.out.raises
           /\ \A f \in V1Fields : calc.out.v[f] = 0 /\ calc.out.daily_averages[f][1] = 0

\* a zero-length window: start = end = d
ZeroLength(c) == c.op = "delta" /\ ~c.out.raises /\ c.start = c.end

\* C18 as stated: for a zero-length window deltaOver returns valueAt(d) for
\* every metric
C18_Original ==
    ZeroLength(calc) =>
        \A f \in V1Fields : calc.out.v[f] = valueAt(calc.impl, calc.end)[f]

\* C18 amended: for a zero-length window inside the historical era deltaOver
\* returns that day's contribution, valueAt(d) - valueAt(d - 1 day)
C18_Amended ==
    (ZeroLength(calc) /\ InEra(calc)) =>
        \A f \in V1Fields :
            calc.out.v[f] = valueAt(calc.impl, calc.end)[f]
                              - valueAt(calc.impl, MinusDays(calc.end, 1))[f]

\* a zero-length window on a day whose predecessor already has a value
C18_Witness ==
    /\ ZeroLength(calc) /\ InEra(calc)
    /\ calc.impl = "HistoricalData" /\ calc.end = Day(31)
    /\ calc.out.v["total_users"] = 286
    /\ valueAt(calc.impl, calc.end)["total_users"] = 18634

\* C19 as stated: changePercentage (to two decimals, in hundredths of a
\* percent) is (value - previousValue) / previousValue * 100 when
\* previousValue > 0, negative when value < previousValue; 100 when
\* previousValue = 0 and value > 0; and 0 otherwise
C19_ChangePercentage ==
    calc.op = "metric" =>
        LET v == calc.out.value
            p == calc.out.previousValue
        IN  calc.out.changePercentage =
                IF p > 0 THEN Round2((v - p) * 100, p)
                ELSE IF v > 0 THEN 10000 ELSE 0

\* C20 as stated: trend is up, down or neutral; up exactly when
\* value > previousValue, down exactly when value < previousValue, neutral
\* exactly when they are equal
C20_Trend ==
    calc.op = "metric" =>
        LET v == calc.out.value
            p == calc.out.previousValue
        IN  /\ calc.out.trend \in {"up", "down", "neutral"}
            /\ calc.out.trend = "up" <=> v > p
            /\ calc.out.trend = "down" <=> v < p
            /\ calc.out.trend = "neutral" <=> v = p

\* C21 as stated: previousValue is the same count over the window
\* [start - (end - start), start], whose length is exactly end - start, also
\* when the window is not a whole number of days
C21_PreviousWindow ==
    calc.op = "previous" =>
        calc.previousValue =
            CountBetween(calc.log, Utc(calc.start) - (Utc(calc.end) - Utc(calc.start)),
                         calc.start)

\* C22 as stated: the window _validate_dates returns has start <= end and
\* start >= the floor 2024-10-01, for inputs in either order and on either
\* side of the floor
C22_NormalizedWindow ==
    calc.op = "validate" =>
        /\ ~After(calc.out.start, calc.out.end)
        /\ ~After(min_date, calc.out.start)

\* C23 as stated (read up to the truncation to an integer): in the blended
\* strategy the daily average is (historical daily average * H + live daily
\* average * L) / (H + L), H the days of [start, min(end, cutoverDate)], L the
\* days of [max(start, liveStart), end], the live daily average being the
\* live count over L days
C23_DayWeightedAverage ==
    calc.op = "merge_daily" =>
        LET H == Min(calc.end, historical_end) - calc.start + 1
            L == calc.end - Max(calc.start, opensearch_start) + 1
        IN  calc.out = (calc.h_daily * H + calc.o_count) \div (H + L)

\* get_user_statistics has returned its rows
StatsDone == calc.op = "user_statistics" /\ calc.pc = "done"
RowUsers == { calc.rows[i].trace_id : i \in 1..Len(calc.rows) }

\* C24 as stated: the directory lookup has an entry for every requested ID,
\* and the breakdown has a row for every user that passes the gauge filter,
\* resolved by the directory or not
C24_NoRowLost ==
    StatsDone =>
        /\ UserIds(calc.counts) \subseteq calc.user_details
        /\ \A u \in UserIds(calc.counts) :
              should_include(calc.gauge_type, UserStat(calc.counts, u)) => u \in RowUsers

\* what each query of the batch has to have delivered once it is done
Delivered(q) == IF q \in calc.failing THEN EmptyCounts ELSE calc.log[q]

C25_Joined ==
    (calc.op = "user_statistics" /\ calc.pc \in {"details", "done"}) =>
        /\ calc.pending = {}
        /\ \A q \in Queries : calc.counts[q] = Delivered(q)
        /\ \A i \in 1..Len(calc.rows) :
              calc.rows[i] = UserStat([q \in Queries |-> Delivered(q)], calc.rows[i].trace_id)

C25_KeepStep ==
    (calc.op = "user_statistics" /\ calc'.op = "user_statistics") =>
        \A q \in Queries \ calc.pending :
            q \notin calc'.pending /\ calc'.counts[q] = calc.counts[q]

\* C25: the rows are assembled only after each of the three queries has
\* completed or failed soft to an empty result, in every order of completion;
\* a failed query leaves the results of the others as they were delivered
C25_JoinBeforeAssembly == []C25_Joined /\ [][C25_KeepStep]_vars

\* the sketch query failed, the other two delivered, and the rows carry the
\* message and render counts
C25_Witness ==
    /\ StatsDone
    /\ calc.failing = {"sketch"}
    /\ calc.gauge_type = "thread_users"
    /\ Len(calc.rows) = 2
    /\ calc.rows[1].messageCount = 25 /\ calc.rows[1].renderCount = 4
    /\ calc.rows[1].sketchCount = 0

\* C26 as stated: the rows are exactly the users whose counts pass the gauge's
\* predicate, each with its three counts, in non-increasing order of the
\* gauge's count
C26_ExactlyFiltered ==
    StatsDone =>
        /\ RowUsers = { u \in Users : should_include(calc.gauge_type, UserStat(calc.counts, u)) }
        /\ \A i \in 1..Len(calc.rows) :
              calc.rows[i] = UserStat(calc.counts, calc.rows[i].trace_id)
        /\ \A i, j \in 1..Len(calc.rows) :
              i < j => SortKey(calc.gauge_type, calc.rows[i])
                            >= SortKey(calc.gauge_type, calc.rows[j])

\* C27 as stated: in every implementation of the tiers no user is both
\* moderate and power, and every moderate or power user is active (so
\* moderate count + power count <= active count for every count map)
C27_TiersNested ==
    calc.op = "segment" =>
        /\ ~(calc.moderate /\ calc.power)
        /\ (calc.moderate \/ calc.power) => calc.active

\* a call that ended in the fallback response (empty metric list)
FellBack(r) == Finished(r) /\ hist[r].path = "fallback" /\ result[r] = Fallback(args[r])

C28_NothingStored ==
    /\ \A r \in Reqs : FellBack(r) => ~hist[r].stored
    /\ \A k \in Keys : cache[k].val.text # "" => cache[k].val.of.metrics # <<>>
    /\ \A r \in Reqs : (Finished(r) /\ hist[r].path = "hit") => result[r].metrics # <<>>

C28_FallbackStep ==
    \A r \in Reqs : (~Finished(r) /\ FellBack(r)') => cache' = cache

\* C28: a call that fails as a whole and returns the fallback response leaves
\* the cache as it was, no entry ever holds a fallback, and so a later request
\* with the same key is never answered with one from the cache
C28_FallbackNotCached == []C28_NothingStored /\ [][C28_FallbackStep]_vars

\* two calls with the same key, cache enabled: both fell back, the second
\* after computing again
C28_Witness ==
    /\ ~disable_cache
    /\ \E r, q \in Reqs :
          /\ r # q /\ Key(r) = Key(q)
          /\ FellBack(r) /\ FellBack(q)
          /\ hist[r].computed = 1 /\ hist[q].computed = 1
          /\ cache[Key(r)] = NoEntry

\* C29 as stated: for the same window and flags the key warm_dashboard_cache
\* stores the dashboard metrics under is the key get_dashboard_metrics looks up
C29_WarmKeyIsLookupKey ==
    calc.op = "warm" => calc.stored = calc.looked_up

\* C30 as stated: a get before expiry returns a value equal to the value set
\* stored, and the second get_or_set returns it without computing again
C30_RoundTrip ==
    calc.op = "roundtrip" =>
        /\ calc.got = calc.v
        /\ calc.again.second = calc.v
        /\ calc.again.computed = 1

====
